---- MODULE Spec2Model ----
(***************************************************************************)
(* A model of src/main.py, the polar-plant EC dashboard: load_data (the    *)
(* directory check, the NFC-normalised file lookup, the per-school CSV     *)
(* loop, the time coercion, the growth workbook loop, the two              *)
(* concatenations), the caller's unpacking and empty-table check, and the  *)
(* views the three tabs compute (filter, counts, group means, best         *)
(* school).                                                                *)
(*                                                                         *)
(* Strings are sequences of Unicode code points, so that normalisation,    *)
(* string equality and the sort order of groupby are computed, not         *)
(* assumed.  A DataFrame is a record [columns, rows]; a cell of a column   *)
(* a frame lacks is NaN.  Of the numeric sensor columns only temperature   *)
(* is carried (humidity, ph and ec are read, concatenated and averaged by  *)
(* the same calls), and of the growth columns only the fresh weight.       *)
(***************************************************************************)
EXTENDS Integers, Sequences, FiniteSets

\* ------------------------------------------------------------------ bounds

\* Environmental CSV files present in a directory.
MaxCsvFiles == 2
\* Sheets of the growth workbook.
MaxSheets == 2
\* Entries of a directory listing handed to get_normalized_path alone.
MaxListing == 2

\* ------------------------------------------- Unicode (unicodedata.normalize)

\* The Hangul syllable block and the conjoining jamo, Unicode ch. 3.12.
SBase == 44032
LBase == 4352
VBase == 4449
TBase == 4519
LCount == 19
VCount == 21
TCount == 28
NCount == VCount * TCount
SCount == LCount * NCount

IsSyllable(c) == c >= SBase /\ c < SBase + SCount
IsL(c) == c >= LBase /\ c < LBase + LCount
IsV(c) == c >= VBase /\ c < VBase + VCount
\* A trailing consonant; TBase itself stands for "no trailing consonant".
IsT(c) == c > TBase /\ c < TBase + TCount
IsLV(c) == IsSyllable(c) /\ (c - SBase) % TCount = 0

\* Canonical decomposition of one code point.
DecomposeChar(c) ==
    IF IsSyllable(c)
    THEN LET s == c - SBase
             l == LBase + (s \div NCount)
             v == VBase + ((s % NCount) \div TCount)
             t == TBase + (s % TCount)
         IN  IF t = TBase THEN <<l, v>> ELSE <<l, v, t>>
    ELSE <<c>>

\* Canonical decomposition of s from position i on, after out.
RECURSIVE Decompose(_, _, _)
Decompose(out, s, i) ==
    IF i > Len(s) THEN out ELSE Decompose(out \o DecomposeChar(s[i]), s, i + 1)

\* unicodedata.normalize('NFD', s)
NFD(s) == Decompose(<<>>, s, 1)

\* Canonical composition of s from position i on; out is the text composed
\* so far.
RECURSIVE Compose(_, _, _)
Compose(out, s, i) ==
    IF i > Len(s) THEN out
    ELSE LET c == s[i]
             n == Len(out)
         IN  IF n > 0 /\ IsV(c) /\ IsL(out[n])
             THEN Compose([out EXCEPT ![n] =
                      SBase + ((out[n] - LBase) * VCount + (c - VBase)) * TCount],
                      s, i + 1)
             ELSE IF n > 0 /\ IsT(c) /\ IsLV(out[n])
             THEN Compose([out EXCEPT ![n] = out[n] + (c - TBase)], s, i + 1)
             ELSE Compose(Append(out, c), s, i + 1)

\* unicodedata.normalize('NFC', s)
NFC(s) == Compose(<<>>, NFD(s), 1)

\* Python's str comparison: lexicographic by code point.
RECURSIVE StrLess(_, _)
StrLess(a, b) ==
    IF b = <<>> THEN FALSE
    ELSE IF a = <<>> THEN TRUE
    ELSE IF Head(a) # Head(b) THEN Head(a) < Head(b)
    ELSE StrLess(Tail(a), Tail(b))

\* ------------------------------------------------------------ school_info

\* The keys of school_info, in NFC as the source file spells them.
Songdo == <<49569, 46020, 44256>>
Haneul == <<54616, 45720, 44256>>
Ara == <<50500, 46972, 44256>>
Dongsan == <<46041, 49328, 44256>>

\* list(school_info.keys()): a dict keeps insertion order.
SchoolOrder == <<Songdo, Haneul, Ara, Dongsan>>
Schools == {SchoolOrder[k] : k \in 1..Len(SchoolOrder)}

\* school_info[school]['ec_target']
EcTarget(school) ==
    CASE school = Songdo -> 1
      [] school = Haneul -> 2
      [] school = Ara -> 4
      [] school = Dongsan -> 8

\* The position of a school in school_info.
ConfigIndex(school) == CHOOSE k \in 1..Len(SchoolOrder) : SchoolOrder[k] = school

\* "_환경데이터.csv"
EnvSuffix == <<95, 54872, 44221, 45936, 51060, 53552, 46, 99, 115, 118>>
\* f"{school}_환경데이터.csv"
EnvFileName(school) == school \o EnvSuffix
\* "4개교_생육결과데이터.xlsx"
GrowthFileName ==
    <<52, 44060, 44368, 95, 49373, 50977, 44208, 44284, 45936, 51060, 53552,
      46, 120, 108, 115, 120>>
\* "전체", the sidebar's entry for all schools
AllSchools == <<51204, 52404>>

\* ------------------------------------------------------------- DataFrames

\* pd.DataFrame(): no columns, no rows.
EmptyFrame == [columns |-> {}, rows |-> <<>>]

\* DataFrame.empty: some axis has length 0.
IsEmpty(df) == df.rows = <<>> \/ df.columns = {}

\* The cells of a time column: a string as read from the CSV (text 0 is not
\* a date, text n > 0 spells the instant n), NaN where the column is
\* missing, and after pd.to_datetime a Timestamp or NaT.
StrCell(n) == [tag |-> "str", val |-> n]
NaNCell == [tag |-> "NaN", val |-> 0]
NaTCell == [tag |-> "NaT", val |-> 0]
Timestamp(n) == [tag |-> "Timestamp", val |-> n]

RECURSIVE Flatten(_)
Flatten(ss) == IF ss = <<>> THEN <<>> ELSE Head(ss) \o Flatten(Tail(ss))

\* A concatenation that stacks the frames last to first.
ConcatReversed(frames) ==
    [columns |-> UNION {frames[k].columns : k \in 1..Len(frames)},
     rows |-> Flatten([k \in 1..Len(frames) |->
                          frames[Len(frames) + 1 - k].rows])]

\* pd.concat(frames, ignore_index=True): the rows of the frames in the order
\* of the list, the columns their union (outer join, NaN where missing).
Concat(frames) ==
    [columns |-> UNION {frames[k].columns : k \in 1..Len(frames)},
     rows |-> Flatten([k \in 1..Len(frames) |-> frames[k].rows])]

\* df['school'] = school; df['target_ec'] = ... on a frame read from a CSV.
TagEnv(csv, school) ==
    [columns |-> csv.columns \cup {"school", "target_ec"},
     rows |-> [k \in 1..Len(csv.rows) |->
                  [time |-> csv.rows[k].time,
                   temperature |-> csv.rows[k].temperature,
                   school |-> school,
                   target_ec |-> EcTarget(school)]]]

\* xl.parse(sheet) and the same two assignments: the sheet has its header
\* row, rows are its fresh weights.
TagGrowth(rows, school) ==
    [columns |-> {"fresh_weight", "school", "target_ec"},
     rows |-> [k \in 1..Len(rows) |->
                  [fresh_weight |-> rows[k],
                   school |-> school,
                   target_ec |-> EcTarget(school)]]]

\* pd.to_datetime on one cell (errors='raise' is the default, so the column
\* is only converted when every cell parses).
Parses(cell) == cell.tag # "str" \/ cell.val > 0
ToDatetimeCell(cell) ==
    IF cell.tag = "str" THEN Timestamp(cell.val)
    ELSE IF cell.tag = "NaN" THEN NaTCell
    ELSE cell

\* env_data['time'] = pd.to_datetime(env_data['time'])
ToDatetime(df) ==
    [df EXCEPT !.rows = [k \in 1..Len(df.rows) |->
        [df.rows[k] EXCEPT !.time = ToDatetimeCell(df.rows[k].time)]]]

\* df[df['school'] == school]
FilterSchool(df, school) ==
    [df EXCEPT !.rows = SelectSeq(df.rows, LAMBDA r : r.school = school)]

\* ------------------------------------------------------------- the disk

\* A directory entry: its name as stored, whether the reader can read it,
\* what pd.read_csv makes of it and the sheets pd.ExcelFile finds in it.
Entry(name, readable, csv, sheets) ==
    [name |-> name, readable |-> readable, csv |-> csv, sheets |-> sheets]

NoCsv == [columns |-> {}, rows |-> <<>>]

\* The rows an environmental CSV with a time column may hold: two samples
\* with dates and one whose time is no date.
Sample1 == [time |-> StrCell(1), temperature |-> 10]
Sample2 == [time |-> StrCell(2), temperature |-> 20]
BadSample == [time |-> StrCell(0), temperature |-> 10]
TimedRowLists == {<<>>, <<Sample1>>, <<Sample1, Sample2>>, <<Sample1, BadSample>>}
\* The rows of one without a time column.
UntimedRowLists == {<<[time |-> NaNCell, temperature |-> 10]>>}

\* What a CSV file of the directory may hold.
CsvContents ==
    {Entry(<<>>, FALSE, NoCsv, <<>>)}
    \cup {Entry(<<>>, TRUE, [columns |-> {"time", "temperature"}, rows |-> r],
                <<>>) : r \in TimedRowLists}
    \cup {Entry(<<>>, TRUE, [columns |-> {"temperature"}, rows |-> r], <<>>) :
              r \in UntimedRowLists}

\* The file system stores names in one normalisation form.
Stored(form, name) == IF form = "NFD" THEN NFD(name) ELSE name

\* The CSV entries of schools i.. of school_info, at most `files` files, in
\* the order of school_info.
RECURSIVE CsvListings(_, _, _)
CsvListings(form, i, files) ==
    IF i > Len(SchoolOrder) THEN {<<>>}
    ELSE CsvListings(form, i + 1, files)
         \cup (IF files = 0 THEN {}
               ELSE {<<[c EXCEPT !.name = n]>> \o rest :
                        n \in {Stored(form, EnvFileName(SchoolOrder[i]))},
                        c \in CsvContents,
                        rest \in CsvListings(form, i + 1, files - 1)})

\* Sheet names: schools as the workbook may spell them, and a sheet that is
\* no school's ("Sheet1").
Sheet1 == <<83, 104, 101, 101, 116, 49>>
SheetNames == {Songdo, Haneul, Dongsan, NFD(Haneul), Sheet1}
\* The fresh weights a sheet may hold.
WeightLists == {<<>>, <<5>>, <<5, 9>>}

\* The sheet lists of a workbook: at most `sheets` sheets of distinct names.
RECURSIVE SheetLists(_, _)
SheetLists(used, sheets) ==
    {<<>>}
    \cup (IF sheets = 0 THEN {}
          ELSE UNION {
              {<<[name |-> n, rows |-> r]>> \o rest :
                  rest \in SheetLists(used \cup {n}, sheets - 1)} :
              n \in SheetNames \ used, r \in WeightLists})

\* What the workbook entry may be: absent, unreadable, or a list of sheets.
Workbooks(form, sheets) ==
    {<<>>}
    \cup {<<Entry(Stored(form, GrowthFileName), FALSE, NoCsv, <<>>)>>}
    \cup {<<Entry(Stored(form, GrowthFileName), TRUE, NoCsv, s)>> :
              s \in SheetLists({}, sheets)}

\* Directories that vary the environmental files beside a workbook that is
\* absent or holds one sheet, and directories that vary the workbook beside
\* environmental files that are absent or hold one row.
OneSheetBooks(form) ==
    {<<>>,
     <<Entry(Stored(form, GrowthFileName), TRUE, NoCsv,
             <<[name |-> Stored(form, Haneul), rows |-> <<5>>]>>)>>}
OneRowCsvs(form) ==
    {<<>>,
     <<Entry(Stored(form, EnvFileName(Haneul)), TRUE,
             [columns |-> {"time", "temperature"},
              rows |-> <<Sample1>>], <<>>)>>}

Directories ==
    UNION {
        {c \o w : c \in CsvListings(form, 1, MaxCsvFiles),
                  w \in OneSheetBooks(form)}
        \cup {c \o w : c \in OneRowCsvs(form),
                       w \in Workbooks(form, MaxSheets)} :
        form \in {"NFC", "NFD"}}

\* Path("data"): missing, or a directory with its entries in listing order.
Disks ==
    {[exists |-> FALSE, entries |-> <<>>]}
    \cup {[exists |-> TRUE, entries |-> d] : d \in Directories}

\* ------------------------------------------------------------------ state

VARIABLES
    disk,               \* Path("data") and what it holds; never written
    pc,                 \* where the script is
    exc,                \* the exception that ended the script, if any
    errors,             \* the st.error messages shown so far
    all_files,          \* load_data: list(base_path.iterdir()), the names
    target_name,        \* get_normalized_path: its argument at the last call
    file_path,          \* load_data: what the last lookup returned
    school_i,           \* load_data: position of the CSV loop in school_info
    env_dfs,            \* load_data: the frames read so far
    env_data,           \* load_data: the unified environmental table
    xl,                 \* load_data: the sheets of the open workbook
    sheet_j,            \* load_data: position of the sheet loop
    growth_data_dict,   \* load_data: <<school, frame>> in insertion order
    growth_data,        \* load_data: the unified growth table
    returned,           \* what load_data returned, by name
    env_df,             \* module level, after the unpacking
    growth_df,
    selected_school,
    disp_env,
    disp_growth,
    info_table,         \* tab 1: <<school, count>> per configured school
    avg_env,            \* tab 2: rows of the group means
    avg_growth,         \* tab 3: rows of the group means
    best_school,
    best_idx,
    counts

loadVars == <<all_files, target_name, file_path, school_i, env_dfs, env_data,
              xl, sheet_j, growth_data_dict, growth_data, returned>>
viewVars == <<env_df, growth_df, selected_school, disp_env, disp_growth,
              info_table, avg_env, avg_growth, best_school, best_idx, counts>>
vars == <<disk, pc, exc, errors, loadVars, viewVars>>

\* None, where a name is expected.
None == <<>>
NoException == [type |-> "none", line |-> 0]

\* An exception of the given type leaves the script at the given line.
Raise(type, line) ==
    /\ pc' = "raised"
    /\ exc' = [type |-> type, line |-> line]

\* The entry of the disk a path names.
EntryAt(name) ==
    disk.entries[CHOOSE k \in 1..Len(disk.entries) : disk.entries[k].name = name]

\* get_normalized_path that compares the names as they are stored.
\* for p in all_files: the first entry from position k on whose NFC name is
\* the wanted one, or None.
RECURSIVE FirstMatch(_, _, _)
FirstMatch(files, k, wanted) ==
    IF k > Len(files) THEN None
    ELSE IF NFC(files[k]) = wanted THEN files[k]
    ELSE FirstMatch(files, k + 1, wanted)

\* get_normalized_path that compares the names as they are stored.
GetPathUnnormalized(files, target) ==
    LET hits == {k \in 1..Len(files) : files[k] = target}
    IN  IF hits = {} THEN None
        ELSE files[CHOOSE k \in hits : \A h \in hits : k <= h]

\* get_normalized_path: the first entry of the listing whose NFC name is the
\* NFC of the target, or None.
GetNormalizedPath(files, target) == FirstMatch(files, 1, NFC(target))

InitLoad(d, files) ==
    /\ disk = d
    /\ exc = NoException
    /\ errors = <<>>
    /\ all_files = files
    /\ target_name = None
    /\ file_path = None
    /\ school_i = 1
    /\ env_dfs = <<>>
    /\ env_data = EmptyFrame
    /\ xl = <<>>
    /\ sheet_j = 1
    /\ growth_data_dict = <<>>
    /\ growth_data = EmptyFrame
    /\ returned = <<>>
    /\ env_df = EmptyFrame
    /\ growth_df = EmptyFrame
    /\ selected_school = None
    /\ disp_env = EmptyFrame
    /\ disp_growth = EmptyFrame
    /\ info_table = <<>>
    /\ avg_env = <<>>
    /\ avg_growth = <<>>
    /\ best_school = None
    /\ best_idx = 0
    /\ counts = <<>>

Init ==
    /\ pc = "load_data"
    /\ \E d \in Disks : InitLoad(d, <<>>)

\* -------------------------------------------------------------- load_data

\* Lines 28-34: the directory check and the listing.
CheckBasePath ==
    /\ pc = "load_data"
    /\ IF ~disk.exists
       THEN /\ errors' = Append(errors, "MissingBaseDirectory")
            /\ returned' = <<"None", "None">>
            /\ pc' = "unpack"
            /\ UNCHANGED all_files
       ELSE /\ all_files' = [k \in 1..Len(disk.entries) |-> disk.entries[k].name]
            /\ pc' = "env_loop"
            /\ UNCHANGED <<errors, returned>>
    /\ UNCHANGED <<disk, exc, target_name, file_path, school_i, env_dfs,
                   env_data, xl, sheet_j, growth_data_dict, growth_data,
                   viewVars>>

\* Lines 52-58: one pass of the loop over school_info.
ReadEnvCsv ==
    /\ pc = "env_loop"
    /\ school_i <= Len(SchoolOrder)
    /\ \E path \in {GetNormalizedPath(all_files, EnvFileName(SchoolOrder[school_i]))} :
       LET school == SchoolOrder[school_i]
           target == EnvFileName(school)
       IN  /\ target_name' = target
           /\ file_path' = path
           /\ IF path = None
              THEN /\ school_i' = school_i + 1
                   /\ UNCHANGED <<env_dfs, pc, exc>>
              ELSE IF ~EntryAt(path).readable
              THEN /\ Raise("ParserError", 55)
                   /\ UNCHANGED <<env_dfs, school_i>>
              ELSE /\ env_dfs' = Append(env_dfs, TagEnv(EntryAt(path).csv, school))
                   /\ school_i' = school_i + 1
                   /\ UNCHANGED <<pc, exc>>
    /\ UNCHANGED <<disk, errors, all_files, env_data, xl, sheet_j,
                   growth_data_dict, growth_data, returned, viewVars>>

\* Line 60: the unified environmental table.
ConcatEnv ==
    /\ pc = "env_loop"
    /\ school_i > Len(SchoolOrder)
    /\ env_data' = IF env_dfs # <<>> THEN Concat(env_dfs) ELSE EmptyFrame
    /\ pc' = "to_datetime"
    /\ UNCHANGED <<disk, exc, errors, all_files, target_name, file_path,
                   school_i, env_dfs, xl, sheet_j, growth_data_dict,
                   growth_data, returned, viewVars>>

\* Lines 61-62: the time column becomes timestamps.
CoerceTime ==
    /\ pc = "to_datetime"
    /\ IF IsEmpty(env_data)
       THEN /\ pc' = "open_workbook"
            /\ UNCHANGED <<env_data, exc>>
       ELSE IF "time" \notin env_data.columns
       THEN /\ Raise("KeyError", 62)
            /\ UNCHANGED env_data
       ELSE IF \E k \in 1..Len(env_data.rows) : ~Parses(env_data.rows[k].time)
       THEN /\ Raise("ValueError", 62)
            /\ UNCHANGED env_data
       ELSE /\ env_data' = ToDatetime(env_data)
            /\ pc' = "open_workbook"
            /\ UNCHANGED exc
    /\ UNCHANGED <<disk, errors, all_files, target_name, file_path, school_i,
                   env_dfs, xl, sheet_j, growth_data_dict, growth_data,
                   returned, viewVars>>

\* Lines 65-68: the workbook is looked up and opened.
OpenWorkbook ==
    /\ pc = "open_workbook"
    /\ \E path \in {GetNormalizedPath(all_files, GrowthFileName)} :
           /\ target_name' = GrowthFileName
           /\ file_path' = path
           /\ IF path = None
              THEN /\ pc' = "sheet_loop"
                   /\ UNCHANGED <<xl, exc>>
              ELSE IF ~EntryAt(path).readable
              THEN /\ Raise("BadZipFile", 68)
                   /\ UNCHANGED xl
              ELSE /\ xl' = EntryAt(path).sheets
                   /\ pc' = "sheet_loop"
                   /\ UNCHANGED exc
    /\ UNCHANGED <<disk, errors, all_files, school_i, env_dfs, env_data,
                   sheet_j, growth_data_dict, growth_data, returned, viewVars>>

\* growth_data_dict[key] = df: a new key goes last, a known key keeps its
\* place and takes the new frame.
DictSet(dict, key, df) ==
    IF \E k \in 1..Len(dict) : dict[k][1] = key
    THEN [k \in 1..Len(dict) |-> IF dict[k][1] = key THEN <<key, df>> ELSE dict[k]]
    ELSE Append(dict, <<key, df>>)

\* Lines 70-76: one pass of the loop over xl.sheet_names.
ParseSheet ==
    /\ pc = "sheet_loop"
    /\ sheet_j <= Len(xl)
    /\ LET sheet == xl[sheet_j]
           norm_sheet == NFC(sheet.name)
       IN  growth_data_dict' =
               IF norm_sheet \in Schools
               THEN DictSet(growth_data_dict, norm_sheet,
                            TagGrowth(sheet.rows, norm_sheet))
               ELSE growth_data_dict
    /\ sheet_j' = sheet_j + 1
    /\ UNCHANGED <<disk, pc, exc, errors, all_files, target_name, file_path,
                   school_i, env_dfs, env_data, xl, growth_data, returned,
                   viewVars>>

\* Lines 78-80: the unified growth table, and the return.
ConcatGrowth ==
    /\ pc = "sheet_loop"
    /\ sheet_j > Len(xl)
    /\ growth_data' =
           IF growth_data_dict # <<>>
           THEN Concat([k \in 1..Len(growth_data_dict) |-> growth_data_dict[k][2]])
           ELSE EmptyFrame
    /\ returned' = <<"env_data", "growth_data", "school_info">>
    /\ pc' = "unpack"
    /\ UNCHANGED <<disk, exc, errors, all_files, target_name, file_path,
                   school_i, env_dfs, env_data, xl, sheet_j, growth_data_dict,
                   viewVars>>

\* ------------------------------------------------------------ module level

\* Line 84: env_df, growth_df, SCHOOL_INFO = load_data()
Unpack ==
    /\ pc = "unpack"
    /\ IF Len(returned) = 3
       THEN /\ env_df' = env_data
            /\ growth_df' = growth_data
            /\ pc' = "empty_check"
            /\ UNCHANGED exc
       ELSE /\ Raise("ValueError", 84)
            /\ UNCHANGED <<env_df, growth_df>>
    /\ UNCHANGED <<disk, errors, loadVars, selected_school, disp_env,
                   disp_growth, info_table, avg_env, avg_growth, best_school,
                   best_idx, counts>>

\* The script halts only when both tables are empty.
BothEmpty(e, g) == IsEmpty(e) /\ IsEmpty(g)

\* Line 86: env_df.empty or growth_df.empty
EitherEmpty(e, g) == IsEmpty(e) \/ IsEmpty(g)

\* Lines 86-88: the error and st.stop().
EmptyCheck ==
    /\ pc = "empty_check"
    /\ IF EitherEmpty(env_df, growth_df)
       THEN /\ errors' = Append(errors, "EmptyResultSet")
            /\ pc' = "stopped"
       ELSE /\ pc' = "sidebar"
            /\ UNCHANGED errors
    /\ UNCHANGED <<disk, exc, loadVars, viewVars>>

\* ------------------------------------------------------------------ views

\* The distinct schools of a table in the order they first appear.
RECURSIVE AppearanceOrder(_, _)
AppearanceOrder(rows, seen) ==
    IF rows = <<>> THEN seen
    ELSE IF \E k \in 1..Len(seen) : seen[k] = Head(rows).school
    THEN AppearanceOrder(Tail(rows), seen)
    ELSE AppearanceOrder(Tail(rows), Append(seen, Head(rows).school))

\* sorted(S) for a set of strings.
RECURSIVE SortStrs(_)
SortStrs(S) ==
    IF S = {} THEN <<>>
    ELSE LET least == CHOOSE x \in S : \A y \in S \ {x} : StrLess(x, y)
         IN  <<least>> \o SortStrs(S \ {least})

\* Group keys as groupby(..., sort=False) would leave them.
GroupKeysUnsorted(df) == AppearanceOrder(df.rows, <<>>)

\* df.groupby('school'): sort=True is the default, the keys come sorted.
GroupKeys(df) == SortStrs({df.rows[k].school : k \in 1..Len(df.rows)})

RECURSIVE Sum(_)
Sum(xs) == IF xs = <<>> THEN 0 ELSE Head(xs) + Sum(Tail(xs))

RECURSIVE GCD(_, _)
GCD(a, b) == IF b = 0 THEN a ELSE GCD(b, a % b)

\* Series.mean() of a non-empty column of numbers, as a fraction in lowest
\* terms (equal means are equal values).
Mean(xs) ==
    LET g == GCD(Sum(xs), Len(xs))
    IN  [num |-> Sum(xs) \div g, den |-> Len(xs) \div g]

FracLess(a, b) == a.num * b.den < b.num * a.den

\* The values a column takes in the rows of one school.
Column(df, school, col) ==
    LET rs == SelectSeq(df.rows, LAMBDA r : r.school = school)
    IN  [k \in 1..Len(rs) |-> rs[k][col]]

\* env_df.groupby('school').mean(numeric_only=True).reset_index()
GroupMeanEnv(df) ==
    LET keys == GroupKeys(df)
    IN  [k \in 1..Len(keys) |->
            [school |-> keys[k],
             temperature |-> Mean(Column(df, keys[k], "temperature")),
             target_ec |-> Mean(Column(df, keys[k], "target_ec"))]]

\* growth_df.groupby('school').mean(numeric_only=True).reset_index()
GroupMeanGrowth(df) ==
    LET keys == GroupKeys(df)
    IN  [k \in 1..Len(keys) |->
            [school |-> keys[k],
             fresh_weight |-> Mean(Column(df, keys[k], "fresh_weight")),
             target_ec |-> Mean(Column(df, keys[k], "target_ec"))]]

\* An idxmax that keeps the last of several maxima.
IdxMaxLast(avg) ==
    CHOOSE k \in 1..Len(avg) :
        /\ \A h \in 1..Len(avg) : ~FracLess(avg[k].fresh_weight, avg[h].fresh_weight)
        /\ \A h \in k + 1..Len(avg) : FracLess(avg[h].fresh_weight, avg[k].fresh_weight)

\* avg_growth['생중량(g)'].idxmax(): the first row holding the maximum.
IdxMax(avg) ==
    CHOOSE k \in 1..Len(avg) :
        /\ \A h \in 1..Len(avg) : ~FracLess(avg[k].fresh_weight, avg[h].fresh_weight)
        /\ \A h \in 1..k - 1 : FracLess(avg[h].fresh_weight, avg[k].fresh_weight)

\* len(df[df['school'] == school])
CountOf(df, school) == Len(FilterSchool(df, school).rows)

\* Lines 92-100: the sidebar's choice and the filtered tables.
SelectSchool ==
    /\ pc = "sidebar"
    /\ \E sel \in {AllSchools} \cup Schools :
        /\ selected_school' = sel
        /\ disp_env' = IF sel = AllSchools THEN env_df ELSE FilterSchool(env_df, sel)
        /\ disp_growth' =
               IF sel = AllSchools THEN growth_df ELSE FilterSchool(growth_df, sel)
    /\ pc' = "tab1"
    /\ UNCHANGED <<disk, exc, errors, loadVars, env_df, growth_df, info_table,
                   avg_env, avg_growth, best_school, best_idx, counts>>

\* Lines 121-131: the table of the schools with their specimen counts.
Tab1 ==
    /\ pc = "tab1"
    /\ info_table' = [k \in 1..Len(SchoolOrder) |->
                          <<SchoolOrder[k], CountOf(growth_df, SchoolOrder[k])>>]
    /\ pc' = "tab2"
    /\ UNCHANGED <<disk, exc, errors, loadVars, env_df, growth_df,
                   selected_school, disp_env, disp_growth, avg_env, avg_growth,
                   best_school, best_idx, counts>>

\* Line 141: the environmental group means.
Tab2 ==
    /\ pc = "tab2"
    /\ avg_env' = GroupMeanEnv(env_df)
    /\ pc' = "tab3"
    /\ UNCHANGED <<disk, exc, errors, loadVars, env_df, growth_df,
                   selected_school, disp_env, disp_growth, info_table,
                   avg_growth, best_school, best_idx, counts>>

\* Lines 176-177: the growth group means and the best school.
Tab3Best ==
    /\ pc = "tab3"
    /\ LET avg == GroupMeanGrowth(growth_df)
       IN  /\ avg_growth' = avg
           \* idxmax of an empty column raises
           /\ IF avg = <<>>
              THEN /\ Raise("ValueError", 177)
                   /\ UNCHANGED best_school
              ELSE /\ best_school' = avg[IdxMax(avg)].school
                   /\ pc' = "tab3_chart"
                   /\ UNCHANGED exc
    /\ UNCHANGED <<disk, errors, loadVars, env_df, growth_df, selected_school,
                   disp_env, disp_growth, info_table, avg_env, best_idx, counts>>

\* Lines 184-193: the row of 하늘고 is highlighted, the counts are aligned
\* with the rows of avg_growth.
Tab3Chart ==
    /\ pc = "tab3_chart"
    /\ LET hits == {k \in 1..Len(avg_growth) : avg_growth[k].school = Haneul}
       IN  IF hits = {}
           THEN /\ Raise("IndexError", 185)
                /\ UNCHANGED <<best_idx, counts>>
           ELSE /\ best_idx' = CHOOSE k \in hits : \A h \in hits : k <= h
                /\ counts' = [k \in 1..Len(avg_growth) |->
                                 CountOf(growth_df, avg_growth[k].school)]
                /\ pc' = "done"
                /\ UNCHANGED exc
    /\ UNCHANGED <<disk, errors, loadVars, env_df, growth_df, selected_school,
                   disp_env, disp_growth, info_table, avg_env, avg_growth,
                   best_school>>

Next ==
    \/ CheckBasePath
    \/ ReadEnvCsv
    \/ ConcatEnv
    \/ CoerceTime
    \/ OpenWorkbook
    \/ ParseSheet
    \/ ConcatGrowth
    \/ Unpack
    \/ EmptyCheck
    \/ SelectSchool
    \/ Tab1
    \/ Tab2
    \/ Tab3Best
    \/ Tab3Chart

Spec == Init /\ [][Next]_vars

\* ------------------------------------------- get_normalized_path on its own

\* ".bak"
BakSuffix == <<46, 98, 97, 107>>

\* Names a listing may hold: a school's file composed, decomposed, with only
\* its first syllable decomposed, with a suffix after it, cut short; and
\* another school's file in both forms.
ListingNames ==
    {EnvFileName(Songdo),
     NFD(EnvFileName(Songdo)),
     NFD(SubSeq(Songdo, 1, 1)) \o SubSeq(EnvFileName(Songdo), 2, Len(EnvFileName(Songdo))),
     EnvFileName(Songdo) \o BakSuffix,
     Songdo,
     EnvFileName(Dongsan),
     NFD(EnvFileName(Dongsan))}

TargetNames ==
    {EnvFileName(Songdo), NFD(EnvFileName(Songdo)), EnvFileName(Dongsan),
     GrowthFileName}

\* Listings of at most n distinct names.
RECURSIVE Listings(_, _)
Listings(used, n) ==
    {<<>>}
    \cup (IF n = 0 THEN {}
          ELSE UNION {{<<x>> \o rest : rest \in Listings(used \cup {x}, n - 1)} :
                        x \in ListingNames \ used})

\* The state of load_data after line 34, before any lookup.
InitLookup ==
    /\ pc = "lookup"
    /\ \E l \in Listings({}, MaxListing) :
          InitLoad([exists |-> TRUE,
                    entries |-> [k \in 1..Len(l) |-> Entry(l[k], TRUE, NoCsv, <<>>)]],
                   l)

\* Lines 36-40: one call of get_normalized_path.
Lookup ==
    /\ pc = "lookup"
    /\ \E t \in TargetNames :
          /\ target_name' = t
          /\ file_path' = GetNormalizedPath(all_files, t)
    /\ UNCHANGED <<disk, pc, exc, errors, all_files, school_i, env_dfs,
                   env_data, xl, sheet_j, growth_data_dict, growth_data,
                   returned, viewVars>>

SpecLookup == InitLookup /\ [][Lookup]_vars

\* ----------------------------------------------------------------- claims

\* load_data ran to its return statement on line 80.
LoadReturned == Len(returned) = 3
\* load_data has just returned its tables: nothing writes them afterwards.
AtReturn == LoadReturned /\ pc = "unpack"

\* The entry the lookup of a school's CSV finds, or None.
EnvSource(school) == GetNormalizedPath(
    [k \in 1..Len(disk.entries) |-> disk.entries[k].name], EnvFileName(school))

\* The rows of a table that carry a school's name.
RowsOf(df, school) == SelectSeq(df.rows, LAMBDA r : r.school = school)

\* C1: when the directory 'data' does not exist, the run ends with the
\* MissingBaseDirectory message shown and no exception: once load_data has
\* returned and the caller has unpacked, the script has not raised.
C1_MissingBaseDirectoryHalts ==
    (~disk.exists /\ pc \notin {"load_data", "unpack"})
        => /\ exc = NoException
           /\ errors = <<"MissingBaseDirectory">>

\* C2: a failure to read one source (a school's CSV, the workbook) is caught
\* inside load_data: the script never ends with the reader's exception.
C2_SourceFailureContained ==
    pc = "raised" => exc.type \notin {"ParserError", "BadZipFile"}

\* The rows load_data should keep of a school's CSV: those whose time is a
\* date, converted and tagged.
ValidRows(school) ==
    LET src == EnvSource(school)
        kept == IF src = None THEN <<>>
                ELSE SelectSeq(EntryAt(src).csv.rows, LAMBDA r : Parses(r.time))
    IN  [k \in 1..Len(kept) |->
            [time |-> ToDatetimeCell(kept[k].time),
             temperature |-> kept[k].temperature,
             school |-> school,
             target_ec |-> EcTarget(school)]]

\* Every CSV of the directory can be read and has a time column.
AllCsvTimed ==
    \A k \in 1..Len(SchoolOrder) :
        LET src == EnvSource(SchoolOrder[k])
        IN  src # None =>
                /\ EntryAt(src).readable
                /\ "time" \in EntryAt(src).csv.columns

\* C3: with readable CSVs that all have a time column, once the time
\* coercion is over no error was raised by it and the unified environmental
\* table holds exactly the rows whose time is a date, school by school in
\* the configured order, each with its school and that school's target EC.
C3_UnparsableRowsDropped ==
    (disk.exists /\ AllCsvTimed /\ pc \notin {"load_data", "env_loop", "to_datetime"})
        => /\ exc.line # 62
           /\ env_data.rows =
                  Flatten([k \in 1..Len(SchoolOrder) |-> ValidRows(SchoolOrder[k])])

\* C4: once the time coercion is over it has raised nothing, and a school
\* whose CSV is readable and has no time column has no row in the unified
\* environmental table.
C4_MissingTimeColumnContributesNothing ==
    (disk.exists /\ pc \notin {"load_data", "env_loop", "to_datetime"})
        => \A k \in 1..Len(SchoolOrder) :
               LET src == EnvSource(SchoolOrder[k])
               IN  (/\ src # None
                    /\ EntryAt(src).readable
                    /\ "time" \notin EntryAt(src).csv.columns)
                       => /\ exc.line # 62
                          /\ RowsOf(env_data, SchoolOrder[k]) = <<>>

\* Nothing of the view stage has been computed.
NoViewComputed ==
    /\ selected_school = None
    /\ info_table = <<>>
    /\ avg_env = <<>>
    /\ avg_growth = <<>>
    /\ best_school = None
    /\ counts = <<>>

\* C5: when load_data returned its tables and the environmental or the
\* growth table has no rows, the script is at the unpacking, at the check or
\* stopped with the EmptyResultSet message, and no view has been computed.
C5_NoViewOnEmptyTable ==
    (LoadReturned /\ (env_data.rows = <<>> \/ growth_data.rows = <<>>))
        => /\ pc \in {"unpack", "empty_check", "stopped"}
           /\ NoViewComputed
           /\ pc = "stopped" => errors = <<"EmptyResultSet">>

\* The script stopped on a growth table without rows beside an environmental
\* table with rows.
C5_Witness ==
    /\ pc = "stopped"
    /\ LoadReturned
    /\ env_data.rows # <<>>
    /\ growth_data.rows = <<>>

\* The rows of a table are grouped by school, the groups in the order rank
\* gives the schools.
OrderedBy(df, rank) ==
    \A p, q \in 1..Len(df.rows) :
        p < q => rank[df.rows[p].school] <= rank[df.rows[q].school]

\* The first and the last sheet of the open workbook whose NFC name is the
\* school's (0 when there is none).
SheetsOf(school) == {j \in 1..Len(xl) : NFC(xl[j].name) = school}
FirstSheet(school) ==
    IF SheetsOf(school) = {} THEN 0
    ELSE CHOOSE j \in SheetsOf(school) : \A h \in SheetsOf(school) : j <= h
LastSheet(school) ==
    IF SheetsOf(school) = {} THEN 0
    ELSE CHOOSE j \in SheetsOf(school) : \A h \in SheetsOf(school) : j >= h

\* The rank of each school in school_info, and by the first sheet of its name.
ConfigRank == [s \in Schools |-> ConfigIndex(s)]
FirstSheetRank == [s \in Schools |-> FirstSheet(s)]

\* The rows of the frame read for a school's CSV (none when no frame).
FrameRows(school) ==
    LET at == {k \in 1..Len(env_dfs) :
                  env_dfs[k].rows # <<>> /\ env_dfs[k].rows[1].school = school}
    IN  IF at = {} THEN <<>> ELSE env_dfs[CHOOSE k \in at : TRUE].rows

\* The environmental table is the per-school frames in configured order.
EnvConcatenated ==
    /\ Len(env_data.rows) = Sum([k \in 1..Len(env_dfs) |-> Len(env_dfs[k].rows)])
    /\ OrderedBy(env_data, ConfigRank)
    /\ \A s \in Schools :
           RowsOf(env_data, s) =
               [k \in 1..Len(FrameRows(s)) |->
                   [FrameRows(s)[k] EXCEPT !.time = ToDatetimeCell(@)]]

\* The growth table is the per-school frames, each school's rows those of
\* its last sheet.
GrowthConcatenated(rank) ==
    /\ Len(growth_data.rows) =
           Sum([k \in 1..Len(growth_data_dict) |-> Len(growth_data_dict[k][2].rows)])
    /\ OrderedBy(growth_data, rank)
    /\ \A s \in Schools :
           LET rs == RowsOf(growth_data, s)
               src == IF LastSheet(s) = 0 THEN <<>> ELSE xl[LastSheet(s)].rows
           IN  [k \in 1..Len(rs) |-> rs[k].fresh_weight] = src

\* C6 as claimed: both unified tables are the per-school tables in the
\* configured order of the schools, whatever the order of the sheets.
C6_ConfiguredOrder ==
    AtReturn => EnvConcatenated /\ GrowthConcatenated(ConfigRank)

\* C6, amended: the environmental table is the per-school tables in the
\* configured order; the growth table is the per-school tables in the order
\* in which the schools' sheets first occur in the workbook.  In both the
\* row count is the sum of the per-school counts and each school's rows
\* keep their source order.
C6_ConcatenationOrder ==
    AtReturn => EnvConcatenated /\ GrowthConcatenated(FirstSheetRank)

\* The growth table holds a later-configured school before an earlier one.
C6_Witness ==
    /\ AtReturn
    /\ \E p, q \in 1..Len(growth_data.rows) :
          /\ p < q
          /\ ConfigIndex(growth_data.rows[p].school)
                 > ConfigIndex(growth_data.rows[q].school)

\* A group-mean view has one row per school of the table, each holding the
\* arithmetic mean of the school's values (mean * count = sum).
IsGroupMean(avg, df, col) ==
    /\ {avg[k].school : k \in 1..Len(avg)} =
           {df.rows[k].school : k \in 1..Len(df.rows)}
    /\ Len(avg) = Cardinality({df.rows[k].school : k \in 1..Len(df.rows)})
    /\ \A k \in 1..Len(avg) :
           LET rs == RowsOf(df, avg[k].school)
           IN  /\ avg[k][col].den > 0
               /\ avg[k][col].num * Len(rs) =
                      avg[k][col].den * Sum([j \in 1..Len(rs) |-> rs[j][col]])

Keys(avg) == [k \in 1..Len(avg) |-> avg[k].school]

\* The rows of a view ascend strictly by school name.
SortedByName(avg) ==
    \A k \in 1..Len(avg) - 1 : StrLess(avg[k].school, avg[k + 1].school)

\* The rows of a view follow the first appearance of the schools in the
\* table, or the configured order of the schools.
AppearanceOrConfigOrder(avg, df) ==
    \/ Keys(avg) = AppearanceOrder(df.rows, <<>>)
    \/ \A k \in 1..Len(avg) - 1 :
           ConfigIndex(avg[k].school) < ConfigIndex(avg[k + 1].school)

\* Line 141 has just set avg_env; lines 176-177 have just set avg_growth and
\* best_school.  Nothing writes them afterwards.
EnvMeansComputed == pc = "tab3"
GrowthMeansComputed == pc = "tab3_chart"

MeansCorrect ==
    /\ EnvMeansComputed =>
           /\ IsGroupMean(avg_env, env_df, "temperature")
           /\ IsGroupMean(avg_env, env_df, "target_ec")
    /\ GrowthMeansComputed =>
           /\ IsGroupMean(avg_growth, growth_df, "fresh_weight")
           /\ IsGroupMean(avg_growth, growth_df, "target_ec")

\* C7 as claimed: the group-mean views hold one row per school with the
\* means, in order of first appearance or in configured order.
C7_GroupMeansInAppearanceOrConfigOrder ==
    /\ MeansCorrect
    /\ EnvMeansComputed => AppearanceOrConfigOrder(avg_env, env_df)
    /\ GrowthMeansComputed => AppearanceOrConfigOrder(avg_growth, growth_df)

\* C7, amended: the group-mean views hold one row per school of the table
\* with the arithmetic means, the rows ascending by school name (code point
\* order of the names).
C7_GroupMeansSortedByName ==
    /\ MeansCorrect
    /\ EnvMeansComputed => SortedByName(avg_env)
    /\ GrowthMeansComputed => SortedByName(avg_growth)

\* The environmental means of 동산고 and 송도고, in that order, the latter the
\* mean 15 of the samples 10 and 20.
C7_Witness ==
    /\ pc = "tab3"
    /\ Keys(avg_env) = <<Dongsan, Songdo>>
    /\ avg_env[2].temperature = [num |-> 15, den |-> 1]

\* Sum and count of a school's fresh weights.
WeightSum(school) ==
    LET rs == RowsOf(growth_df, school)
    IN  Sum([k \in 1..Len(rs) |-> rs[k].fresh_weight])
WeightCount(school) == Len(RowsOf(growth_df, school))
GrowthSchools == {growth_df.rows[k].school : k \in 1..Len(growth_df.rows)}
\* mean(a) < mean(b)
MeanBelow(a, b) == WeightSum(a) * WeightCount(b) < WeightSum(b) * WeightCount(a)
\* The schools whose mean fresh weight is the largest.
BestSchools == {a \in GrowthSchools : \A b \in GrowthSchools : ~MeanBelow(a, b)}

\* C8 as claimed: best_school has the largest mean fresh weight and among
\* the schools that share it is the first to appear in the growth table or
\* the first in configured order.
C8_BestSchoolFirstByAppearance ==
    GrowthMeansComputed =>
        /\ best_school \in BestSchools
        /\ \/ \A b \in BestSchools :
                  ConfigIndex(best_school) <= ConfigIndex(b)
           \/ \A b \in BestSchools \ {best_school} :
                  \E p \in 1..Len(growth_df.rows) :
                      /\ growth_df.rows[p].school = best_school
                      /\ \A q \in 1..p : growth_df.rows[q].school # b

\* C8, amended: best_school has the largest mean fresh weight and among the
\* schools that share it is the first by name (code point order).
C8_BestSchoolFirstByName ==
    GrowthMeansComputed =>
        /\ best_school \in BestSchools
        /\ \A b \in BestSchools \ {best_school} : StrLess(best_school, b)

\* 동산고 is best_school although 송도고, configured and appearing before it,
\* has the same mean.
C8_Witness ==
    /\ GrowthMeansComputed
    /\ best_school = Dongsan
    /\ Songdo \in BestSchools
    /\ growth_df.rows[1].school = Songdo

\* Canonical equivalence of two names: equal decompositions.
CanonicallyEqual(a, b) == NFD(a) = NFD(b)

\* C9: after a call of get_normalized_path the listing is what the directory
\* holds, and the result is the first entry of the listing canonically
\* equivalent to the target, or None when no entry is.
C9_LookupExactAfterNormalization ==
    target_name # None =>
        /\ all_files = [k \in 1..Len(disk.entries) |-> disk.entries[k].name]
        /\ IF file_path = None
           THEN \A k \in 1..Len(all_files) :
                    ~CanonicallyEqual(all_files[k], target_name)
           ELSE \E k \in 1..Len(all_files) :
                    /\ all_files[k] = file_path
                    /\ CanonicallyEqual(file_path, target_name)
                    /\ NFC(file_path) = NFC(target_name)
                    /\ \A h \in 1..k - 1 :
                           ~CanonicallyEqual(all_files[h], target_name)

\* The lookup of a composed name passed over an entry that only starts like
\* it and found the entry stored decomposed.
C9_Witness ==
    /\ target_name = EnvFileName(Songdo)
    /\ all_files = <<EnvFileName(Songdo) \o BakSuffix, NFD(EnvFileName(Songdo))>>
    /\ file_path = NFD(EnvFileName(Songdo))

\* C10: when load_data returned two tables with rows, the script raises
\* nothing afterwards.
C10_ViewStageCompletes ==
    (LoadReturned /\ env_data.rows # <<>> /\ growth_data.rows # <<>>)
        => pc # "raised"
====
